---------------------------- MODULE Spec2Model ----------------------------
(***************************************************************************)
(* Model of the cross-chain identity program                               *)
(*   src/programs/identity_program/src/lib.rs                              *)
(* its wire codec (the deserialize_* helpers and the borsh envelope), the  *)
(* dispatch in receive_message and the credential registry                 *)
(* (store_credential / revoke_credential); and of the standalone identity *)
(* program                                                                 *)
(*   src/solana/programs/identity/src/lib.rs                               *)
(* (process_initialize, process_verify, process_update_did,                *)
(* process_update_ethereum_address on one IdentityAccount).                *)
(*                                                                         *)
(* Byte buffers are sequences over 0..255.  Integers are decoded           *)
(* little-endian as the code does; the inputs the model draws keep every   *)
(* decoded integer below 2^31 (the top byte of a u32 is at most 127, the   *)
(* upper bytes of a u64 are 0), which is the range of TLC's integers.  The  *)
(* 32-byte digest of solana_program::hash::hash is kept symbolic: a record *)
(* naming the bytes that were hashed.                                      *)
(***************************************************************************)
EXTENDS Integers, Sequences, FiniteSets, TLC

VARIABLES
    state,        \* the ProgramState account, or NoAccount before initialize
    credentials,  \* handle -> Credential account, or NoAccount
    now,          \* Clock::get()?.unix_timestamp as u64
    okCount,      \* history: successful calls so far, per kind of call
    last,         \* outcome of the most recent instruction
    buf,          \* codec specification: the payload buffer under decode
    kind,         \* codec specification: which deserialize_* is applied
    dec,          \* codec specification: the decode outcome, or NotDecoded
    identity_account, \* standalone program: the identity account's data
    instruction,  \* standalone program: the most recent instruction
    verified_as   \* history: did and ethereum_address at the latest Verify

idVars == <<identity_account, instruction, verified_as>>
coreVars == <<state, credentials, now, okCount, last, buf, kind, dec>>
vars == <<state, credentials, now, okCount, last, buf, kind, dec,
          identity_account, instruction, verified_as>>

----------------------------------------------------------------------------
(* Bounds of the model *)

\* at most MaxOps successful counted instructions (Verification, DIDResolution
\* and CredentialVerification dispatches, store_credential) in a behaviour
MaxOps == 2
\* the clock runs from 1 to MaxTime
MaxTime == 2

(* Program constants *)

\* require!(did_len <= 128, ...)
MaxDidLen == 128
\* require!(name_len <= 32, ...)
MaxNameLen == 32
\* require!(symbol_len <= 10, ...)
MaxSymbolLen == 10
\* require!(vaa_account.emitter_chain() == 2, ...): the configured remote chain
RemoteChain == 2

----------------------------------------------------------------------------
(* Bytes *)

Rep(n, b) == [i \in 1..n |-> b]

\* little-endian value of a byte string (u32 / u64 try_from_slice)
RECURSIVE LeValue(_)
LeValue(bytes) ==
    IF bytes = <<>> THEN 0 ELSE Head(bytes) + 256 * LeValue(Tail(bytes))

\* little-endian bytes of v on n bytes (borsh serialization of u32 / u64)
RECURSIVE LeBytes(_, _)
LeBytes(v, n) ==
    IF n = 0 THEN <<>> ELSE <<v % 256>> \o LeBytes(v \div 256, n - 1)

\* Rust's &data[lo..hi]: in range iff lo <= hi <= data.len(), else a panic
InRange(data, lo, hi) == lo <= hi /\ hi <= Len(data)
Slice(data, lo, hi) == SubSeq(data, lo + 1, hi)

\* String::from_utf8: well-formed UTF-8 (no overlong forms, no surrogates,
\* nothing above U+10FFFF)
IsCont(b) == b \in 128..191
RECURSIVE IsUtf8(_)
IsUtf8(s) ==
    IF s = <<>> THEN TRUE
    ELSE LET b0 == s[1]
             n  == Len(s)
             rest(k) == SubSeq(s, k + 1, n)
         IN  IF b0 < 128 THEN IsUtf8(rest(1))
             ELSE IF b0 \in 194..223
               THEN n >= 2 /\ IsCont(s[2]) /\ IsUtf8(rest(2))
             ELSE IF b0 \in 224..239
               THEN /\ n >= 3
                    /\ s[2] \in (IF b0 = 224 THEN 160..191
                                 ELSE IF b0 = 237 THEN 128..159
                                 ELSE 128..191)
                    /\ IsCont(s[3])
                    /\ IsUtf8(rest(3))
             ELSE IF b0 \in 240..244
               THEN /\ n >= 4
                    /\ s[2] \in (IF b0 = 240 THEN 144..191
                                 ELSE IF b0 = 244 THEN 128..143
                                 ELSE 128..191)
                    /\ IsCont(s[3])
                    /\ IsCont(s[4])
                    /\ IsUtf8(rest(4))
             ELSE FALSE

\* solana_program::hash::hash(bytes).to_bytes(), symbolic
hash(bytes) == [sha256_of |-> bytes]

----------------------------------------------------------------------------
(* Outcomes of a fallible step: Ok(value), an error value returned through *)
(* Result, or a panic (index out of range), with the slice ranges the      *)
(* step asked of its buffer, in order.                                     *)

NoValue == [none |-> TRUE]
Ok(v, sl) == [tag |-> "Ok", code |-> "None", value |-> v, slices |-> sl]
Failed(code, sl) == [tag |-> "Err", code |-> code, value |-> NoValue, slices |-> sl]
Panicked(sl) == [tag |-> "Panic", code |-> "IndexOutOfRange", value |-> NoValue, slices |-> sl]

----------------------------------------------------------------------------
(* Wire codec: payload decoders *)

\* mutant: a did of exactly MAX_DID_LENGTH bytes is refused
deserialize_verification_StrictBound(data) ==
    LET s1 == << <<0, 8>> >>
        s2 == Append(s1, <<8, 12>>)
    IN  IF ~InRange(data, 0, 8) THEN Panicked(s1)
        ELSE IF ~InRange(data, 8, 12) THEN Panicked(s2)
        ELSE LET request_id == LeValue(Slice(data, 0, 8))
                 did_len    == LeValue(Slice(data, 8, 12))
             IN  IF ~(did_len < MaxDidLen) THEN Failed("StringTooLong", s2)
                 ELSE LET s3 == Append(s2, <<12, 12 + did_len>>)
                      IN  IF ~InRange(data, 12, 12 + did_len) THEN Panicked(s3)
                          ELSE Ok([request_id |-> request_id,
                                   did |-> Slice(data, 12, 12 + did_len)], s3)

deserialize_verification(data) ==
    LET s1 == << <<0, 8>> >>
        s2 == Append(s1, <<8, 12>>)
    IN  IF ~InRange(data, 0, 8) THEN Panicked(s1)
        ELSE IF ~InRange(data, 8, 12) THEN Panicked(s2)
        ELSE LET request_id == LeValue(Slice(data, 0, 8))
                 did_len    == LeValue(Slice(data, 8, 12))
             IN  IF ~(did_len <= MaxDidLen) THEN Failed("StringTooLong", s2)
                 ELSE LET s3 == Append(s2, <<12, 12 + did_len>>)
                      IN  IF ~InRange(data, 12, 12 + did_len) THEN Panicked(s3)
                          ELSE Ok([request_id |-> request_id,
                                   did |-> Slice(data, 12, 12 + did_len)], s3)

\* mutant: the symbol is sliced before its length is checked
deserialize_asset_creation_SliceFirst(data) ==
    LET s1 == << <<0, 32>> >>
        s2 == Append(s1, <<32, 36>>)
    IN  IF ~InRange(data, 0, 32) THEN Panicked(s1)
        ELSE IF ~InRange(data, 32, 36) THEN Panicked(s2)
        ELSE LET issuer   == Slice(data, 0, 32)
                 name_len == LeValue(Slice(data, 32, 36))
             IN  IF ~(name_len <= MaxNameLen) THEN Failed("StringTooLong", s2)
                 ELSE LET s3 == Append(s2, <<36, 36 + name_len>>)
                          symbol_start == 36 + name_len
                          s4 == Append(s3, <<symbol_start, symbol_start + 4>>)
                      IN  IF ~InRange(data, 36, 36 + name_len) THEN Panicked(s3)
                          ELSE IF ~InRange(data, symbol_start, symbol_start + 4)
                            THEN Panicked(s4)
                          ELSE LET symbol_len ==
                                     LeValue(Slice(data, symbol_start, symbol_start + 4))
                                   s5 == Append(s4, <<symbol_start + 4,
                                                      symbol_start + 4 + symbol_len>>)
                               IN  IF ~InRange(data, symbol_start + 4,
                                               symbol_start + 4 + symbol_len)
                                     THEN Panicked(s5)
                                   ELSE IF ~(symbol_len <= MaxSymbolLen)
                                     THEN Failed("StringTooLong", s5)
                                   ELSE Ok([issuer |-> issuer,
                                            name |-> Slice(data, 36, 36 + name_len),
                                            symbol |-> Slice(data, symbol_start + 4,
                                                     symbol_start + 4 + symbol_len)], s5)

deserialize_asset_creation(data) ==
    LET s1 == << <<0, 32>> >>
        s2 == Append(s1, <<32, 36>>)
    IN  IF ~InRange(data, 0, 32) THEN Panicked(s1)
        ELSE IF ~InRange(data, 32, 36) THEN Panicked(s2)
        ELSE LET issuer   == Slice(data, 0, 32)
                 name_len == LeValue(Slice(data, 32, 36))
             IN  IF ~(name_len <= MaxNameLen) THEN Failed("StringTooLong", s2)
                 ELSE LET s3 == Append(s2, <<36, 36 + name_len>>)
                          symbol_start == 36 + name_len
                          s4 == Append(s3, <<symbol_start, symbol_start + 4>>)
                      IN  IF ~InRange(data, 36, 36 + name_len) THEN Panicked(s3)
                          ELSE IF ~InRange(data, symbol_start, symbol_start + 4)
                            THEN Panicked(s4)
                          ELSE LET symbol_len ==
                                     LeValue(Slice(data, symbol_start, symbol_start + 4))
                                   s5 == Append(s4, <<symbol_start + 4,
                                                      symbol_start + 4 + symbol_len>>)
                               IN  IF ~(symbol_len <= MaxSymbolLen)
                                     THEN Failed("StringTooLong", s4)
                                   ELSE IF ~InRange(data, symbol_start + 4,
                                                    symbol_start + 4 + symbol_len)
                                     THEN Panicked(s5)
                                   ELSE Ok([issuer |-> issuer,
                                            name |-> Slice(data, 36, 36 + name_len),
                                            symbol |-> Slice(data, symbol_start + 4,
                                                     symbol_start + 4 + symbol_len)], s5)

deserialize_token_transfer(data) ==
    LET s1 == << <<0, 8>> >>
        s2 == Append(s1, <<8, 40>>)
        s3 == Append(s2, <<40, 48>>)
    IN  IF ~InRange(data, 0, 8) THEN Panicked(s1)
        ELSE IF ~InRange(data, 8, 40) THEN Panicked(s2)
        ELSE IF ~InRange(data, 40, 48) THEN Panicked(s3)
        ELSE Ok([transfer_id |-> LeValue(Slice(data, 0, 8)),
                 token_address |-> Slice(data, 8, 40),
                 amount |-> LeValue(Slice(data, 40, 48))], s3)

deserialize_credential_verification(data) ==
    LET s1 == << <<0, 8>> >>
        s2 == Append(s1, <<8, 40>>)
    IN  IF ~InRange(data, 0, 8) THEN Panicked(s1)
        ELSE IF ~InRange(data, 8, 40) THEN Panicked(s2)
        ELSE Ok([request_id |-> LeValue(Slice(data, 0, 8)),
                 credential_hash |-> Slice(data, 8, 40)], s2)

deserialize_role_sync(data) ==
    LET s1 == << <<0, 8>> >>
        s2 == Append(s1, <<8, 40>>)
        s3 == Append(s2, <<40, 72>>)
        s4 == Append(s3, <<72, 73>>)
    IN  IF ~InRange(data, 0, 8) THEN Panicked(s1)
        ELSE IF ~InRange(data, 8, 40) THEN Panicked(s2)
        ELSE IF ~InRange(data, 40, 72) THEN Panicked(s3)
        ELSE IF ~(72 < Len(data)) THEN Panicked(s4)
        ELSE Ok([request_id |-> LeValue(Slice(data, 0, 8)),
                 role |-> Slice(data, 8, 40),
                 account |-> Slice(data, 40, 72),
                 is_grant |-> (data[73] # 0)], s4)

\* VecToString::try_into: a failed String::from_utf8 is mapped to StringTooLong
VecToString(bytes) ==
    IF IsUtf8(bytes) THEN Ok(bytes, <<>>) ELSE Failed("StringTooLong", <<>>)


----------------------------------------------------------------------------
(* Wire codec: the borsh envelope *)

\* enum MessageType, in declaration order: the borsh tag is the index - 1
MessageTypes ==
    << "Verification", "VerificationResponse", "AssetCreation", "TokenTransfer",
       "TokenTransferResponse", "CredentialVerification",
       "CredentialVerificationResponse", "RoleSynchronization", "RoleSyncResponse",
       "DIDResolution", "DIDResolutionResponse" >>

ResponseTypes ==
    { "VerificationResponse", "TokenTransferResponse",
      "CredentialVerificationResponse", "RoleSyncResponse", "DIDResolutionResponse" }

TagOf(msg_type) == (CHOOSE i \in 1..Len(MessageTypes) : MessageTypes[i] = msg_type) - 1

\* deserialize::<MessagePayload>: u8 tag | u32 len | data | u64 timestamp |
\* 32-byte message_id, and try_from_slice rejects bytes left over
deserialize(vaa) ==
    LET n == Len(vaa)
        io == Failed("BorshIoError", <<>>)
    IN  IF n < 1 THEN io
        ELSE IF ~(vaa[1] < Len(MessageTypes)) THEN io
        ELSE IF n < 5 THEN io
        ELSE LET len == LeValue(SubSeq(vaa, 2, 5))
             IN  IF n - 5 < len THEN io
                 ELSE IF n - 5 - len < 8 THEN io
                 ELSE IF n - 5 - len - 8 < 32 THEN io
                 ELSE IF n # 5 + len + 8 + 32 THEN io
                 ELSE Ok([msg_type |-> MessageTypes[vaa[1] + 1],
                          data |-> SubSeq(vaa, 6, 5 + len),
                          timestamp |-> LeValue(SubSeq(vaa, 6 + len, 13 + len)),
                          message_id |-> SubSeq(vaa, 14 + len, 45 + len)], <<>>)

\* serialize(&MessagePayload {..}) for a message_id given as 32 bytes
serialize(msg_type, data, timestamp, message_id) ==
    <<TagOf(msg_type)>> \o LeBytes(Len(data), 4) \o data
        \o LeBytes(timestamp, 8) \o message_id

\* serialize(&request_id) / serialize(&transfer_id)
serialize_u64(v) == LeBytes(v, 8)

\* serialize(&XResponse { request_id, flag: true }): u64 | bool
serialize_response(id, flag) == serialize_u64(id) \o <<IF flag THEN 1 ELSE 0>>

\* serialize(&DIDResolutionResponse { request_id, resolved, did_document: Vec::new() })
serialize_did_response(id, flag) == serialize_response(id, flag) \o LeBytes(0, 4)

----------------------------------------------------------------------------
(* Dispatch: one operator per arm of the match in receive_message.  An arm *)
(* is given the ProgramState as loaded, the envelope's data, the clock and *)
(* whether the mint collaborator accepts a mint; it yields the result, the *)
(* ProgramState to be written back, what happened to the mint, the events  *)
(* emitted and the reply envelope built.                                   *)

NoAccount == [exists |-> FALSE]
NoReply == [msg_type |-> "None"]

Outcome(result, st, mint, events, reply) ==
    [result |-> result, state |-> st, mint |-> mint,
     events |-> events, reply |-> reply]

\* an Err or a panic leaves the call: nothing is written back
Abort(pre, d, mint) ==
    Outcome(IF d.tag = "Panic" THEN "Panic" ELSE d.code, pre, mint, <<>>, NoReply)

\* mutant: the message_id is hashed from the correlator and the timestamp
Reply_StampedId(msg_type, data, t, correlator) ==
    [msg_type |-> msg_type, data |-> data, timestamp |-> t,
     message_id |-> hash(serialize_u64(correlator) \o serialize_u64(t))]

\* MessagePayload { msg_type, data, timestamp: Clock::get()?.unix_timestamp,
\*                  message_id: hash(&serialize(&correlator)?).to_bytes() }
Reply(msg_type, data, t, correlator) ==
    [msg_type |-> msg_type, data |-> data, timestamp |-> t,
     message_id |-> hash(serialize_u64(correlator))]

\* mutant: the counter is bumped before the DID is converted to text, and a
\* failed conversion leaves the bumped ProgramState behind
VerificationArm_CountsFirst(st, data, t) ==
    LET d == deserialize_verification(data)
        counted == [st EXCEPT !.verification_count = @ + 1]
    IN  IF d.tag # "Ok" THEN Abort(st, d, "NotInvoked")
        ELSE LET did == VecToString(d.value.did)
                 request_id == d.value.request_id
             IN  IF did.tag # "Ok" THEN Abort(counted, did, "NotInvoked")
                 ELSE Outcome("Ok", counted, "NotInvoked",
                        << [event |-> "VerificationEvent", request_id |-> request_id,
                            did |-> did.value, verified |-> TRUE] >>,
                        Reply("VerificationResponse",
                              serialize_response(request_id, TRUE), t, request_id))

VerificationArm(st, data, t) ==
    LET d == deserialize_verification(data)
    IN  IF d.tag # "Ok" THEN Abort(st, d, "NotInvoked")
        ELSE LET did == VecToString(d.value.did)
                 request_id == d.value.request_id
             IN  IF did.tag # "Ok" THEN Abort(st, did, "NotInvoked")
                 ELSE Outcome("Ok",
                        [st EXCEPT !.verification_count = @ + 1],
                        "NotInvoked",
                        << [event |-> "VerificationEvent", request_id |-> request_id,
                            did |-> did.value, verified |-> TRUE] >>,
                        Reply("VerificationResponse",
                              serialize_response(request_id, TRUE), t, request_id))

\* mutant: the arm bumps verification_count as the Verification arm does
AssetCreationArm_Counts(st, data) ==
    LET d == deserialize_asset_creation(data)
    IN  IF d.tag # "Ok" THEN Abort(st, d, "NotInvoked")
        ELSE LET name == VecToString(d.value.name)
                 symbol == VecToString(d.value.symbol)
             IN  IF name.tag # "Ok" THEN Abort(st, name, "NotInvoked")
                 ELSE IF symbol.tag # "Ok" THEN Abort(st, symbol, "NotInvoked")
                 ELSE Outcome("Ok",
                        [st EXCEPT !.verification_count = @ + 1],
                        "NotInvoked",
                        << [event |-> "AssetCreationEvent", issuer |-> d.value.issuer,
                            name |-> name.value, symbol |-> symbol.value] >>,
                        NoReply)

AssetCreationArm(st, data) ==
    LET d == deserialize_asset_creation(data)
    IN  IF d.tag # "Ok" THEN Abort(st, d, "NotInvoked")
        ELSE LET name == VecToString(d.value.name)
                 symbol == VecToString(d.value.symbol)
             IN  IF name.tag # "Ok" THEN Abort(st, name, "NotInvoked")
                 ELSE IF symbol.tag # "Ok" THEN Abort(st, symbol, "NotInvoked")
                 ELSE Outcome("Ok", st, "NotInvoked",
                        << [event |-> "AssetCreationEvent", issuer |-> d.value.issuer,
                            name |-> name.value, symbol |-> symbol.value] >>,
                        NoReply)

\* mutant: the result of mint_to is dropped instead of propagated with ?
TokenTransferArm_IgnoresMint(st, data, t, mintOk) ==
    LET d == deserialize_token_transfer(data)
    IN  IF d.tag # "Ok" THEN Abort(st, d, "NotInvoked")
        ELSE Outcome("Ok", st, IF mintOk THEN "Succeeded" ELSE "Failed", <<>>,
                     Reply("TokenTransferResponse",
                           serialize_response(d.value.transfer_id, TRUE), t,
                           d.value.transfer_id))

TokenTransferArm(st, data, t, mintOk) ==
    LET d == deserialize_token_transfer(data)
    IN  IF d.tag # "Ok" THEN Abort(st, d, "NotInvoked")
        ELSE IF ~mintOk THEN Abort(st, Failed("MintFailed", <<>>), "Failed")
        ELSE Outcome("Ok", st, "Succeeded", <<>>,
                     Reply("TokenTransferResponse",
                           serialize_response(d.value.transfer_id, TRUE), t,
                           d.value.transfer_id))

\* mutant: the reply is built with verified: false
CredentialVerificationArm_Unverified(st, data, t) ==
    LET d == deserialize_credential_verification(data)
    IN  IF d.tag # "Ok" THEN Abort(st, d, "NotInvoked")
        ELSE LET request_id == d.value.request_id
             IN  Outcome("Ok",
                    [st EXCEPT !.credential_count = @ + 1],
                    "NotInvoked",
                    << [event |-> "CredentialVerificationEvent",
                        request_id |-> request_id,
                        credential_hash |-> d.value.credential_hash,
                        verified |-> TRUE] >>,
                    Reply("CredentialVerificationResponse",
                          serialize_response(request_id, FALSE), t, request_id))

\* mutant: the arm bumps verification_count, as the Verification arm does
CredentialVerificationArm_CountsVerification(st, data, t) ==
    LET d == deserialize_credential_verification(data)
    IN  IF d.tag # "Ok" THEN Abort(st, d, "NotInvoked")
        ELSE LET request_id == d.value.request_id
             IN  Outcome("Ok",
                    [st EXCEPT !.verification_count = @ + 1],
                    "NotInvoked",
                    << [event |-> "CredentialVerificationEvent",
                        request_id |-> request_id,
                        credential_hash |-> d.value.credential_hash,
                        verified |-> TRUE] >>,
                    Reply("CredentialVerificationResponse",
                          serialize_response(request_id, TRUE), t, request_id))

CredentialVerificationArm(st, data, t) ==
    LET d == deserialize_credential_verification(data)
    IN  IF d.tag # "Ok" THEN Abort(st, d, "NotInvoked")
        ELSE LET request_id == d.value.request_id
             IN  Outcome("Ok",
                    [st EXCEPT !.credential_count = @ + 1],
                    "NotInvoked",
                    << [event |-> "CredentialVerificationEvent",
                        request_id |-> request_id,
                        credential_hash |-> d.value.credential_hash,
                        verified |-> TRUE] >>,
                    Reply("CredentialVerificationResponse",
                          serialize_response(request_id, TRUE), t, request_id))

\* mutant: the reply reports success = is_grant
RoleSynchronizationArm_EchoesGrant(st, data, t) ==
    LET d == deserialize_role_sync(data)
    IN  IF d.tag # "Ok" THEN Abort(st, d, "NotInvoked")
        ELSE LET request_id == d.value.request_id
             IN  Outcome("Ok", st, "NotInvoked",
                    << [event |-> "RoleSyncEvent", request_id |-> request_id,
                        role |-> d.value.role, account |-> d.value.account,
                        is_grant |-> d.value.is_grant] >>,
                    Reply("RoleSyncResponse",
                          serialize_response(request_id, d.value.is_grant), t,
                          request_id))

RoleSynchronizationArm(st, data, t) ==
    LET d == deserialize_role_sync(data)
    IN  IF d.tag # "Ok" THEN Abort(st, d, "NotInvoked")
        ELSE LET request_id == d.value.request_id
             IN  Outcome("Ok", st, "NotInvoked",
                    << [event |-> "RoleSyncEvent", request_id |-> request_id,
                        role |-> d.value.role, account |-> d.value.account,
                        is_grant |-> d.value.is_grant] >>,
                    Reply("RoleSyncResponse",
                          serialize_response(request_id, TRUE), t, request_id))

DIDResolutionArm(st, data, t) ==
    LET d == deserialize_verification(data)
    IN  IF d.tag # "Ok" THEN Abort(st, d, "NotInvoked")
        ELSE LET did == VecToString(d.value.did)
                 request_id == d.value.request_id
             IN  IF did.tag # "Ok" THEN Abort(st, did, "NotInvoked")
                 ELSE Outcome("Ok", st, "NotInvoked",
                        << [event |-> "DIDResolutionEvent", request_id |-> request_id,
                            did |-> did.value, resolved |-> TRUE] >>,
                        Reply("DIDResolutionResponse",
                              serialize_did_response(request_id, TRUE), t, request_id))

\* mutant: no catch-all arm; a response tag is handled as its request
Dispatch_ResponsesAsRequests(st, payload, t, mintOk) ==
    CASE payload.msg_type \in {"Verification", "VerificationResponse"} ->
             VerificationArm(st, payload.data, t)
      [] payload.msg_type = "AssetCreation" -> AssetCreationArm(st, payload.data)
      [] payload.msg_type \in {"TokenTransfer", "TokenTransferResponse"} ->
             TokenTransferArm(st, payload.data, t, mintOk)
      [] payload.msg_type \in {"CredentialVerification",
                               "CredentialVerificationResponse"} ->
             CredentialVerificationArm(st, payload.data, t)
      [] payload.msg_type \in {"RoleSynchronization", "RoleSyncResponse"} ->
             RoleSynchronizationArm(st, payload.data, t)
      [] OTHER -> DIDResolutionArm(st, payload.data, t)

\* match payload.msg_type { ... _ => return Err(ErrorCode::InvalidMessageType.into()) }
Dispatch(st, payload, t, mintOk) ==
    CASE payload.msg_type = "Verification" -> VerificationArm(st, payload.data, t)
      [] payload.msg_type = "AssetCreation" -> AssetCreationArm(st, payload.data)
      [] payload.msg_type = "TokenTransfer" ->
             TokenTransferArm(st, payload.data, t, mintOk)
      [] payload.msg_type = "CredentialVerification" ->
             CredentialVerificationArm(st, payload.data, t)
      [] payload.msg_type = "RoleSynchronization" ->
             RoleSynchronizationArm(st, payload.data, t)
      [] payload.msg_type = "DIDResolution" -> DIDResolutionArm(st, payload.data, t)
      [] OTHER -> Abort(st, Failed("InvalidMessageType", <<>>), "NotInvoked")

\* receive_message(ctx, vaa).  origin_chain_id is the chain the attested
\* message comes from; the handler takes the whole vaa as the payload and
\* never looks at the origin.
receive_message(st, vaa, origin_chain_id, t, mintOk) ==
    LET payload == deserialize(vaa)
    IN  IF payload.tag # "Ok" THEN Abort(st, payload, "NotInvoked")
        ELSE Dispatch(st, payload.value, t, mintOk)

----------------------------------------------------------------------------
(* The registry and initialize *)

\* mutant: the state account is init_if_needed, so a second initialize
\* succeeds and resets the record
initialize_InitIfNeeded(st, authority) ==
    [result |-> "Ok",
     state |-> [authority |-> authority, verification_count |-> 0,
                credential_count |-> 0]]

\* initialize(ctx): #[account(init)] refuses an account that already exists
initialize(st, authority) ==
    IF st # NoAccount
      THEN [result |-> "AccountAlreadyInUse", state |-> st]
      ELSE [result |-> "Ok",
            state |-> [authority |-> authority, verification_count |-> 0,
                       credential_count |-> 0]]

\* mutant: the record's owner is taken from the ProgramState, not from the
\* signer of the call
store_credential_OwnerIsState(st, cred, authority, credential_hash) ==
    IF st = NoAccount
      THEN [result |-> "AccountNotInitialized", state |-> st, credential |-> cred,
            events |-> <<>>]
    ELSE IF cred # NoAccount
      THEN [result |-> "AccountAlreadyInUse", state |-> st, credential |-> cred,
            events |-> <<>>]
    ELSE [result |-> "Ok",
          state |-> [st EXCEPT !.credential_count = @ + 1],
          credential |-> [hash |-> credential_hash, is_valid |-> TRUE,
                          owner |-> st.authority, revocation_date |-> 0],
          events |-> << [event |-> "CredentialStoredEvent",
                         credential_hash |-> credential_hash,
                         owner |-> authority] >>]

\* mutant: the credential account is init_if_needed, so an existing record is
\* written over
store_credential_InitIfNeeded(st, cred, authority, credential_hash) ==
    IF st = NoAccount
      THEN [result |-> "AccountNotInitialized", state |-> st, credential |-> cred,
            events |-> <<>>]
    ELSE [result |-> "Ok",
          state |-> [st EXCEPT !.credential_count = @ + 1],
          credential |-> [hash |-> credential_hash, is_valid |-> TRUE,
                          owner |-> authority, revocation_date |-> 0],
          events |-> << [event |-> "CredentialStoredEvent",
                         credential_hash |-> credential_hash,
                         owner |-> authority] >>]

\* store_credential(ctx, credential_hash): state must be a ProgramState
\* account, credential is #[account(init)]
store_credential(st, cred, authority, credential_hash) ==
    IF st = NoAccount
      THEN [result |-> "AccountNotInitialized", state |-> st, credential |-> cred,
            events |-> <<>>]
    ELSE IF cred # NoAccount
      THEN [result |-> "AccountAlreadyInUse", state |-> st, credential |-> cred,
            events |-> <<>>]
    ELSE [result |-> "Ok",
          state |-> [st EXCEPT !.credential_count = @ + 1],
          credential |-> [hash |-> credential_hash, is_valid |-> TRUE,
                          owner |-> authority, revocation_date |-> 0],
          events |-> << [event |-> "CredentialStoredEvent",
                         credential_hash |-> credential_hash,
                         owner |-> authority] >>]

\* mutant: revoking a revoked record is a no-op that keeps the first date
revoke_credential_KeepsFirstDate(cred, authority, t) ==
    IF cred = NoAccount
      THEN [result |-> "AccountNotInitialized", credential |-> cred, events |-> <<>>]
    ELSE IF ~(cred.owner = authority)
      THEN [result |-> "Unauthorized", credential |-> cred, events |-> <<>>]
    ELSE IF ~cred.is_valid
      THEN [result |-> "Ok", credential |-> cred,
            events |-> << [event |-> "CredentialRevokedEvent",
                           credential_hash |-> cred.hash,
                           revocation_date |-> cred.revocation_date] >>]
    ELSE [result |-> "Ok",
          credential |-> [cred EXCEPT !.is_valid = FALSE, !.revocation_date = t],
          events |-> << [event |-> "CredentialRevokedEvent",
                         credential_hash |-> cred.hash,
                         revocation_date |-> t] >>]

\* mutant: the owner check is missing
revoke_credential_NoOwnerCheck(cred, authority, t) ==
    IF cred = NoAccount
      THEN [result |-> "AccountNotInitialized", credential |-> cred, events |-> <<>>]
    ELSE [result |-> "Ok",
          credential |-> [cred EXCEPT !.is_valid = FALSE, !.revocation_date = t],
          events |-> << [event |-> "CredentialRevokedEvent",
                         credential_hash |-> cred.hash,
                         revocation_date |-> t] >>]

\* mutant: a revocation wipes the stored hash
revoke_credential_ClearsHash(cred, authority, t) ==
    IF cred = NoAccount
      THEN [result |-> "AccountNotInitialized", credential |-> cred, events |-> <<>>]
    ELSE IF ~(cred.owner = authority)
      THEN [result |-> "Unauthorized", credential |-> cred, events |-> <<>>]
    ELSE [result |-> "Ok",
          credential |-> [cred EXCEPT !.is_valid = FALSE, !.revocation_date = t,
                                      !.hash = Rep(32, 0)],
          events |-> << [event |-> "CredentialRevokedEvent",
                         credential_hash |-> cred.hash,
                         revocation_date |-> t] >>]

\* mutant: a revocation stamps the date and leaves is_valid as it was
revoke_credential_DateOnly(cred, authority, t) ==
    IF cred = NoAccount
      THEN [result |-> "AccountNotInitialized", credential |-> cred, events |-> <<>>]
    ELSE IF ~(cred.owner = authority)
      THEN [result |-> "Unauthorized", credential |-> cred, events |-> <<>>]
    ELSE [result |-> "Ok",
          credential |-> [cred EXCEPT !.revocation_date = t],
          events |-> << [event |-> "CredentialRevokedEvent",
                         credential_hash |-> cred.hash,
                         revocation_date |-> t] >>]

\* revoke_credential(ctx)
revoke_credential(cred, authority, t) ==
    IF cred = NoAccount
      THEN [result |-> "AccountNotInitialized", credential |-> cred, events |-> <<>>]
    ELSE IF ~(cred.owner = authority)
      THEN [result |-> "Unauthorized", credential |-> cred, events |-> <<>>]
    ELSE [result |-> "Ok",
          credential |-> [cred EXCEPT !.is_valid = FALSE, !.revocation_date = t],
          events |-> << [event |-> "CredentialRevokedEvent",
                         credential_hash |-> cred.hash,
                         revocation_date |-> t] >>]

----------------------------------------------------------------------------
(* Payload layouts of the remote chain's encoder (the layout table): the   *)
(* inverse of the deserialize_* helpers, used to build inbound messages.   *)

encode_verification(request_id, did) ==
    LeBytes(request_id, 8) \o LeBytes(Len(did), 4) \o did

encode_asset_creation(issuer, name, symbol) ==
    issuer \o LeBytes(Len(name), 4) \o name \o LeBytes(Len(symbol), 4) \o symbol

encode_token_transfer(transfer_id, token_address, amount) ==
    LeBytes(transfer_id, 8) \o token_address \o LeBytes(amount, 8)

encode_credential_verification(request_id, credential_hash) ==
    LeBytes(request_id, 8) \o credential_hash

encode_role_sync(request_id, role, account, is_grant) ==
    LeBytes(request_id, 8) \o role \o account \o <<IF is_grant THEN 1 ELSE 0>>

----------------------------------------------------------------------------
(* Inputs of the instructions *)

Keys == {"alice", "bob"}
Handles == {"cred1", "cred2"}
Hashes == {Rep(32, 17), Rep(32, 34)}
\* a chain other than the remote chain
ForeignChain == RemoteChain - 1
RequestIds == {7, 300}

\* "did:a", and a byte string that is not UTF-8
DidText == <<100, 105, 100, 58, 97>>
BadText == <<100, 255>>

Envelope(msg_type, data) == serialize(msg_type, data, 1, Rep(32, 0))

VerificationData(r) == encode_verification(r, DidText)
AssetData == encode_asset_creation(Rep(32, 5), <<71, 111, 108, 100>>, <<71, 76, 68>>)
TokenData(r) == encode_token_transfer(r, Rep(32, 9), 1000)
CredentialData == encode_credential_verification(7, Rep(32, 17))
RoleData(g) == encode_role_sync(7, Rep(32, 3), Rep(32, 4), g)

\* a payload with the u32 length field at offset off overwritten by len
WithLen(data, off, len) ==
    SubSeq(data, 1, off) \o LeBytes(len, 4) \o SubSeq(data, off + 5, Len(data))

TokenVaas == { Envelope("TokenTransfer", TokenData(r)) : r \in RequestIds }

ValidVaas ==
    { Envelope("Verification", VerificationData(r)) : r \in RequestIds }
    \cup TokenVaas
    \cup { Envelope("RoleSynchronization", RoleData(g)) : g \in BOOLEAN }
    \cup { Envelope("DIDResolution", VerificationData(7)),
           Envelope("AssetCreation", AssetData),
           Envelope("CredentialVerification", CredentialData) }

ResponseVaas == { Envelope(m, VerificationData(7)) : m \in ResponseTypes }

MalformedVaas ==
    { <<>>,
      <<11>> \o Tail(Envelope("Verification", VerificationData(7))),
      Envelope("Verification", VerificationData(7)) \o <<0>>,
      SubSeq(Envelope("TokenTransfer", TokenData(7)), 1, 60),
      Envelope("Verification", SubSeq(VerificationData(7), 1, 11)),
      Envelope("Verification", WithLen(VerificationData(7), 8, MaxDidLen + 1)),
      Envelope("Verification", WithLen(VerificationData(7), 8, 6)),
      Envelope("Verification", encode_verification(7, BadText)),
      Envelope("DIDResolution", encode_verification(7, BadText)),
      Envelope("AssetCreation", WithLen(AssetData, 32, MaxNameLen + 1)),
      Envelope("AssetCreation", WithLen(AssetData, 40, MaxSymbolLen + 1)),
      Envelope("AssetCreation", encode_asset_creation(Rep(32, 5), BadText, <<71>>)),
      Envelope("AssetCreation", encode_asset_creation(Rep(32, 5), <<71>>, BadText)),
      Envelope("TokenTransfer", SubSeq(TokenData(7), 1, 47)),
      Envelope("TokenTransfer", <<>>),
      Envelope("CredentialVerification", SubSeq(CredentialData, 1, 39)),
      Envelope("RoleSynchronization", SubSeq(RoleData(TRUE), 1, 72)) }

VaaInputs == ValidVaas \cup ResponseVaas \cup MalformedVaas

\* A delivery: the vaa, the chain it comes from, and whether the mint
\* collaborator would accept a mint.  Every vaa comes from the remote chain
\* with a willing mint; the valid ones also come from a foreign chain; the
\* token transfers also meet a mint that refuses.
Deliveries ==
    (VaaInputs \X {RemoteChain} \X {TRUE})
    \cup (ValidVaas \X {ForeignChain} \X {TRUE})
    \cup (TokenVaas \X {RemoteChain} \X {FALSE})

\* the registry specification delivers a few messages only
RegistryDeliveries ==
    { <<Envelope("Verification", VerificationData(7)), RemoteChain, TRUE>>,
      <<Envelope("CredentialVerification", CredentialData), RemoteChain, TRUE>>,
      <<Envelope("VerificationResponse", VerificationData(7)), RemoteChain, TRUE>>,
      <<Envelope("TokenTransfer", TokenData(7)), RemoteChain, FALSE>> }

\* role synchronizations over other request ids, roles and accounts
RoleVaas ==
    { Envelope("RoleSynchronization",
               encode_role_sync(300, Rep(32, 0), Rep(32, 255), g)) : g \in BOOLEAN }

\* the inbound specification: every valid message, text fields that are not
\* UTF-8 or too long, and a response
InboundDeliveries ==
    ( ValidVaas
      \cup RoleVaas
      \cup { Envelope("Verification", encode_verification(7, BadText)),
             Envelope("DIDResolution", encode_verification(7, BadText)),
             Envelope("AssetCreation",
                      encode_asset_creation(Rep(32, 5), BadText, <<71>>)),
             Envelope("AssetCreation",
                      encode_asset_creation(Rep(32, 5), <<71>>, BadText)),
             Envelope("Verification", WithLen(VerificationData(7), 8, MaxDidLen + 1)),
             Envelope("AssetCreation", WithLen(AssetData, 32, MaxNameLen + 1)),
             Envelope("AssetCreation", WithLen(AssetData, 40, MaxSymbolLen + 1)),
             Envelope("VerificationResponse", VerificationData(7)) } )
    \X {RemoteChain} \X {TRUE}

\* the replies specification: requests that are answered, two of them with
\* another correlator, and a response, which is refused
ReplyDeliveries ==
    ( { Envelope("Verification", VerificationData(r)) : r \in RequestIds }
      \cup TokenVaas
      \cup { Envelope("CredentialVerification", CredentialData),
             Envelope("RoleSynchronization", RoleData(TRUE)),
             Envelope("DIDResolution", VerificationData(7)),
             Envelope("VerificationResponse", VerificationData(7)) } )
    \X {RemoteChain} \X {TRUE}

AllDeliveries == Deliveries \cup InboundDeliveries \cup ReplyDeliveries

----------------------------------------------------------------------------
(* The program as a state machine *)

NotDecoded == [tag |-> "NotDecoded"]
NoKey == "none"
NoHandle == "none"

----------------------------------------------------------------------------
(* The standalone identity program                                         *)
(*   src/solana/programs/identity/src/lib.rs                               *)
(* An identity account is a byte buffer of a fixed size that holds the     *)
(* borsh bytes of an IdentityAccount from offset 0.  The model keeps the   *)
(* size of the buffer (space) and the IdentityAccount its leading bytes    *)
(* decode to (data): the bytes after that encoding are never interpreted,  *)
(* they only make try_from_slice fail.                                     *)

\* the Pubkey of 32 zero bytes
ZeroedKey == "zeroed"

EthAddresses == {Rep(20, 170), Rep(20, 187)}
Dids == {<<100>>, <<101>>, <<100, 105>>}
VerificationTexts == {<<>>, <<118>>}

\* what an account decodes to while every byte of it is still 0
ZeroedIdentity ==
    [owner |-> ZeroedKey, ethereum_address |-> Rep(20, 0), did |-> <<>>,
     verification_data |-> <<>>, is_verified |-> FALSE]

\* borsh: Pubkey, [u8; 20], two strings behind a u32 length, one bool
SerializedLen(identity) ==
    32 + 20 + (4 + Len(identity.did)) + (4 + Len(identity.verification_data)) + 1

Allocated(space) == [space |-> space, data |-> ZeroedIdentity]

\* account sizes: the empty IdentityAccount, and one and two bytes more
Spaces == { SerializedLen(ZeroedIdentity) + k : k \in 0..2 }

Processed(result, account) == [result |-> result, account |-> account]

\* IdentityAccount::try_from_slice: an error unless the encoding ends where
\* the account's data ends
try_from_slice(account) ==
    IF SerializedLen(account.data) = account.space
      THEN [tag |-> "Ok", value |-> account.data]
      ELSE [tag |-> "Err", code |-> "BorshIoError"]

\* identity.serialize(&mut *data.borrow_mut()): an error when the data is
\* shorter than the encoding, and then the instruction leaves nothing written
serialize_into(account, identity) ==
    IF SerializedLen(identity) <= account.space
      THEN Processed("Ok", [account EXCEPT !.data = identity])
      ELSE Processed("BorshIoError", account)

\* The accounts an instruction is given: how many, whether the first is
\* owned by this program (it is the identity account then), and the key and
\* the signer flag of the second.
AccountInputs ==
    [n : {1, 2}, program_owned : BOOLEAN, key : Keys, is_signer : BOOLEAN]

\* the checks every handler starts with
AccountsError(accounts) ==
    IF accounts.n < 2 THEN "NotEnoughAccountKeys"
    ELSE IF ~accounts.is_signer THEN "MissingRequiredSignature"
    ELSE IF ~accounts.program_owned THEN "IncorrectProgramId"
    ELSE "Ok"

process_initialize(account, accounts, ethereum_address, did) ==
    IF AccountsError(accounts) # "Ok"
      THEN Processed(AccountsError(accounts), account)
      ELSE serialize_into(account,
               [owner |-> accounts.key, ethereum_address |-> ethereum_address,
                did |-> did, verification_data |-> <<>>, is_verified |-> FALSE])

process_verify(account, accounts, verification_data) ==
    LET identity == try_from_slice(account)
    IN  IF AccountsError(accounts) # "Ok"
          THEN Processed(AccountsError(accounts), account)
        ELSE IF identity.tag # "Ok" THEN Processed(identity.code, account)
        ELSE serialize_into(account,
                 [identity.value EXCEPT !.verification_data = verification_data,
                                        !.is_verified = TRUE])

process_update_did(account, accounts, new_did) ==
    LET identity == try_from_slice(account)
    IN  IF AccountsError(accounts) # "Ok"
          THEN Processed(AccountsError(accounts), account)
        ELSE IF identity.tag # "Ok" THEN Processed(identity.code, account)
        ELSE IF identity.value.owner # accounts.key
          THEN Processed("InvalidAccountData", account)
        ELSE serialize_into(account,
                 [identity.value EXCEPT !.did = new_did, !.is_verified = FALSE])

\* mutant: a new ethereum address does not ask for a new verification
process_update_ethereum_address_KeepsVerified(account, accounts, new_ethereum_address) ==
    LET identity == try_from_slice(account)
    IN  IF AccountsError(accounts) # "Ok"
          THEN Processed(AccountsError(accounts), account)
        ELSE IF identity.tag # "Ok" THEN Processed(identity.code, account)
        ELSE IF identity.value.owner # accounts.key
          THEN Processed("InvalidAccountData", account)
        ELSE serialize_into(account,
                 [identity.value EXCEPT !.ethereum_address = new_ethereum_address])

process_update_ethereum_address(account, accounts, new_ethereum_address) ==
    LET identity == try_from_slice(account)
    IN  IF AccountsError(accounts) # "Ok"
          THEN Processed(AccountsError(accounts), account)
        ELSE IF identity.tag # "Ok" THEN Processed(identity.code, account)
        ELSE IF identity.value.owner # accounts.key
          THEN Processed("InvalidAccountData", account)
        ELSE serialize_into(account,
                 [identity.value EXCEPT !.ethereum_address = new_ethereum_address,
                                        !.is_verified = FALSE])

NoInstruction ==
    [op |-> "none", result |-> "None", key |-> NoKey, is_signer |-> FALSE]

NothingVerified == [did |-> <<>>, ethereum_address |-> Rep(20, 0)]

\* the standalone program has not been called
IdentityUntouched ==
    /\ identity_account = Allocated(SerializedLen(ZeroedIdentity))
    /\ instruction = NoInstruction
    /\ verified_as = NothingVerified

----------------------------------------------------------------------------
(* The cross-chain program as a state machine *)

ZeroCounts ==
    [Verification |-> 0, DIDResolution |-> 0, CredentialVerification |-> 0,
     store_credential |-> 0]

Ops(c) ==
    c.Verification + c.DIDResolution + c.CredentialVerification + c.store_credential

Call(op, result, signer, handle) ==
    [op |-> op, result |-> result, signer |-> signer, handle |-> handle,
     origin |-> 0, msg_type |-> "None", data_len |-> 0, mint |-> "NotInvoked",
     events |-> <<>>, reply |-> NoReply, prior_date |-> 0]

Init ==
    /\ IdentityUntouched
    /\ state = NoAccount
    /\ credentials = [h \in Handles |-> NoAccount]
    /\ now = 1
    /\ okCount = ZeroCounts
    /\ last = Call("none", "None", NoKey, NoHandle)
    /\ buf = <<>>
    /\ kind = "None"
    /\ dec = NotDecoded

Initialize ==
    \E authority \in Keys :
        LET r == initialize(state, authority)
        IN  /\ state' = r.state
            /\ last' = Call("initialize", r.result, authority, NoHandle)
            /\ UNCHANGED <<credentials, now, okCount, buf, kind, dec, idVars>>

\* receive_message and deserialize tabulated over the inputs the model draws
\* (@@ <<>> has TLC compute each table once)
ProgramStates ==
    [authority : Keys, verification_count : 0..MaxOps, credential_count : 0..MaxOps]

ReceiveTable ==
    [x \in ProgramStates \X AllDeliveries \X (1..MaxTime) |->
        receive_message(x[1], x[2][1], x[2][2], x[3], x[2][3])] @@ <<>>

EnvelopeTable ==
    [vaa \in {dl[1] : dl \in AllDeliveries} |-> deserialize(vaa)] @@ <<>>

Receive(st, dl, t) == ReceiveTable[<<st, dl, t>>]

\* mutant: a message that was just dispatched is refused when it comes again
ReceiveEffect_DropsReplay(dl) ==
        LET vaa == dl[1]
            origin == dl[2]
            loaded == state # NoAccount
            replayed == last.op = "receive_message" /\ last.result = "Ok" /\ vaa = buf
            o == IF loaded /\ ~replayed
                   THEN Receive(state, dl, now)
                 ELSE IF loaded
                   THEN Abort(state, Failed("AlreadyProcessed", <<>>), "NotInvoked")
                   ELSE Abort(state, Failed("AccountNotInitialized", <<>>), "NotInvoked")
            env == EnvelopeTable[vaa]
            decoded == loaded /\ env.tag = "Ok"
            mt == IF decoded THEN env.value.msg_type ELSE "None"
            counted == o.result = "Ok" /\ mt \in DOMAIN okCount
        IN  /\ state' = o.state
            /\ okCount' = IF counted THEN [okCount EXCEPT ![mt] = @ + 1] ELSE okCount
            /\ Ops(okCount') <= MaxOps
            /\ last' = [Call("receive_message", o.result, NoKey, NoHandle)
                          EXCEPT !.origin = origin, !.msg_type = mt,
                                 !.data_len = IF decoded THEN Len(env.value.data) ELSE 0,
                                 !.mint = o.mint, !.events = o.events,
                                 !.reply = o.reply]
            /\ UNCHANGED <<credentials, now, idVars>>

\* #[account(mut)] state: Account<ProgramState> must load before the handler runs
ReceiveEffect(dl) ==
        LET vaa == dl[1]
            origin == dl[2]
            loaded == state # NoAccount
            o == IF loaded
                   THEN Receive(state, dl, now)
                   ELSE Abort(state, Failed("AccountNotInitialized", <<>>), "NotInvoked")
            env == EnvelopeTable[vaa]
            decoded == loaded /\ env.tag = "Ok"
            mt == IF decoded THEN env.value.msg_type ELSE "None"
            counted == o.result = "Ok" /\ mt \in DOMAIN okCount
        IN  /\ state' = o.state
            /\ okCount' = IF counted THEN [okCount EXCEPT ![mt] = @ + 1] ELSE okCount
            /\ Ops(okCount') <= MaxOps
            /\ last' = [Call("receive_message", o.result, NoKey, NoHandle)
                          EXCEPT !.origin = origin, !.msg_type = mt,
                                 !.data_len = IF decoded THEN Len(env.value.data) ELSE 0,
                                 !.mint = o.mint, !.events = o.events,
                                 !.reply = o.reply]
            /\ UNCHANGED <<credentials, now, idVars>>

ReceiveMessageOf(deliveries) ==
    \E dl \in deliveries : ReceiveEffect(dl) /\ UNCHANGED <<buf, kind, dec>>

StoreCredentialOf(handles, hashes) ==
    \E h \in handles, authority \in Keys, credential_hash \in hashes :
        LET r == store_credential(state, credentials[h], authority, credential_hash)
        IN  /\ state' = r.state
            /\ credentials' = [credentials EXCEPT ![h] = r.credential]
            /\ okCount' = IF r.result = "Ok"
                            THEN [okCount EXCEPT !.store_credential = @ + 1]
                            ELSE okCount
            /\ Ops(okCount') <= MaxOps
            /\ last' = [Call("store_credential", r.result, authority, h)
                          EXCEPT !.events = r.events]
            /\ UNCHANGED <<now, buf, kind, dec, idVars>>

\* mutant: a revocation takes the record out of credential_count
RevokeCredentialOf_Uncounts(handles) ==
    \E h \in handles, authority \in Keys :
        LET cred == credentials[h]
            r == revoke_credential(cred, authority, now)
        IN  /\ credentials' = [credentials EXCEPT ![h] = r.credential]
            /\ state' = IF r.result = "Ok" /\ state # NoAccount
                          THEN [state EXCEPT !.credential_count = @ - 1]
                          ELSE state
            /\ last' = [Call("revoke_credential", r.result, authority, h)
                          EXCEPT !.events = r.events,
                                 !.prior_date = IF cred = NoAccount THEN 0
                                                ELSE cred.revocation_date]
            /\ UNCHANGED <<now, okCount, buf, kind, dec, idVars>>

\* mutant: a revocation reaches every record that holds the same hash
RevokeCredentialOf_ByHash(handles) ==
    \E h \in handles, authority \in Keys :
        LET cred == credentials[h]
            r == revoke_credential(cred, authority, now)
        IN  /\ credentials' =
                 [g \in Handles |->
                    IF g = h THEN r.credential
                    ELSE IF /\ r.result = "Ok"
                            /\ credentials[g] # NoAccount
                            /\ credentials[g].hash = cred.hash
                      THEN [credentials[g] EXCEPT !.is_valid = FALSE,
                                                  !.revocation_date = now]
                    ELSE credentials[g]]
            /\ last' = [Call("revoke_credential", r.result, authority, h)
                          EXCEPT !.events = r.events,
                                 !.prior_date = IF cred = NoAccount THEN 0
                                                ELSE cred.revocation_date]
            /\ UNCHANGED <<state, now, okCount, buf, kind, dec, idVars>>

RevokeCredentialOf(handles) ==
    \E h \in handles, authority \in Keys :
        LET cred == credentials[h]
            r == revoke_credential(cred, authority, now)
        IN  /\ credentials' = [credentials EXCEPT ![h] = r.credential]
            /\ last' = [Call("revoke_credential", r.result, authority, h)
                          EXCEPT !.events = r.events,
                                 !.prior_date = IF cred = NoAccount THEN 0
                                                ELSE cred.revocation_date]
            /\ UNCHANGED <<state, now, okCount, buf, kind, dec, idVars>>

\* the cluster's clock advances between instructions
Tick ==
    /\ now < MaxTime
    /\ now' = now + 1
    /\ UNCHANGED <<state, credentials, okCount, last, buf, kind, dec, idVars>>

(* Spec: every delivery, the registry on one credential account with one   *)
(* hash.                                                                   *)
ReceiveMessage == ReceiveMessageOf(Deliveries)
StoreCredential == StoreCredentialOf({"cred1"}, {Rep(32, 17)})
RevokeCredential == RevokeCredentialOf({"cred1"})

Next ==
    \/ Initialize
    \/ ReceiveMessage
    \/ StoreCredential
    \/ RevokeCredential
    \/ Tick

Spec == Init /\ [][Next]_vars

(* SpecRegistry: a few deliveries, the registry on every credential        *)
(* account, signer and hash.                                               *)
RegistryReceive == ReceiveMessageOf(RegistryDeliveries)
RegistryStore == StoreCredentialOf(Handles, Hashes)
RegistryRevoke == RevokeCredentialOf(Handles)

NextRegistry ==
    \/ Initialize
    \/ RegistryReceive
    \/ RegistryStore
    \/ RegistryRevoke
    \/ Tick

SpecRegistry == Init /\ [][NextRegistry]_vars

(* SpecInbound: deliveries from the remote chain only, no registry calls.   *)
(* Each receive_message leaves the vaa it was given in buf.                 *)
InboundReceive ==
    \E dl \in InboundDeliveries :
        /\ ReceiveEffect(dl)
        /\ buf' = dl[1]
        /\ UNCHANGED <<kind, dec>>

NextInbound ==
    \/ Initialize
    \/ InboundReceive
    \/ Tick

SpecInbound == Init /\ [][NextInbound]_vars

(* SpecReplies: the messages that are answered, and one that is refused.    *)
(* Each receive_message leaves the vaa it was given in buf and the reply    *)
(* most recently built by an earlier call in dec.                           *)
RepliesReceive ==
    \E dl \in ReplyDeliveries :
        /\ ReceiveEffect(dl)
        /\ buf' = dl[1]
        /\ dec' = IF last.reply # NoReply THEN last.reply ELSE dec
        /\ UNCHANGED kind

NextReplies ==
    \/ Initialize
    \/ RepliesReceive
    \/ Tick

SpecReplies == Init /\ [][NextReplies]_vars

----------------------------------------------------------------------------
(* SpecCodec: the payload decoders as pure functions.  Init draws a        *)
(* decoder and a buffer, the one step applies the decoder.                 *)

Prefixes(data) == { SubSeq(data, 1, n) : n \in 0..Len(data) }
PrefixesFrom(data, lo) == { SubSeq(data, 1, n) : n \in lo..Len(data) }

\* declared lengths far beyond every bound
HugeLens == {200, 65536, 2147483000}

VerificationBuffers ==
    UNION { Prefixes(encode_verification(r, did)) :
              r \in RequestIds, did \in {<<>>, DidText, BadText, Rep(MaxDidLen, 97)} }
    \cup PrefixesFrom(encode_verification(7, Rep(MaxDidLen + 1, 97)), 12)
    \cup { WithLen(encode_verification(7, Rep(MaxDidLen, 97)), 8, n) : n \in HugeLens }
    \cup { WithLen(encode_verification(7, <<>>), 8, n) : n \in HugeLens }

AssetNames == {<<>>, <<71, 111, 108, 100>>, Rep(MaxNameLen, 78)}
AssetSymbols == {<<>>, <<71, 76, 68>>, Rep(MaxSymbolLen, 83)}

AssetBuffers ==
    UNION { Prefixes(encode_asset_creation(Rep(32, 5), n, sy)) :
              n \in AssetNames, sy \in AssetSymbols }
    \cup PrefixesFrom(encode_asset_creation(Rep(32, 5), Rep(MaxNameLen + 1, 78),
                                            <<71>>), 36)
    \cup UNION { PrefixesFrom(encode_asset_creation(Rep(32, 5), n,
                                   Rep(MaxSymbolLen + 1, 83)), 36 + Len(n) + 4) :
                   n \in AssetNames }
    \cup { WithLen(encode_asset_creation(Rep(32, 5), Rep(MaxNameLen, 78),
                                         Rep(MaxSymbolLen, 83)), 32, n) :
             n \in HugeLens }
    \cup { WithLen(encode_asset_creation(Rep(32, 5), <<71>>, Rep(MaxSymbolLen, 83)),
                   37, n) : n \in HugeLens }

TokenBuffers ==
    UNION { Prefixes(encode_token_transfer(r, Rep(32, 9), a) \o <<0>>) :
              r \in RequestIds, a \in {0, 1000} }

CredentialBuffers ==
    UNION { Prefixes(encode_credential_verification(r, h) \o <<0>>) :
              r \in RequestIds, h \in Hashes }

RoleBuffers ==
    UNION { Prefixes(encode_role_sync(7, Rep(32, 3), Rep(32, 4), g) \o <<0>>) :
              g \in BOOLEAN }
    \cup { LeBytes(300, 8) \o Rep(64, 1) \o <<2>> }

InitCodec ==
    /\ IdentityUntouched
    /\ state = NoAccount
    /\ credentials = [h \in Handles |-> NoAccount]
    /\ now = 1
    /\ okCount = ZeroCounts
    /\ last = Call("none", "None", NoKey, NoHandle)
    /\ dec = NotDecoded
    /\ \/ kind = "verification" /\ buf \in VerificationBuffers
       \/ kind = "asset_creation" /\ buf \in AssetBuffers
       \/ kind = "token_transfer" /\ buf \in TokenBuffers
       \/ kind = "credential_verification" /\ buf \in CredentialBuffers
       \/ kind = "role_sync" /\ buf \in RoleBuffers

Decode(k, result) ==
    /\ kind = k
    /\ dec = NotDecoded
    /\ dec' = result
    /\ UNCHANGED <<state, credentials, now, okCount, last, buf, kind, idVars>>

DecodeVerification == Decode("verification", deserialize_verification(buf))
DecodeAssetCreation == Decode("asset_creation", deserialize_asset_creation(buf))
DecodeTokenTransfer == Decode("token_transfer", deserialize_token_transfer(buf))
DecodeCredentialVerification ==
    Decode("credential_verification", deserialize_credential_verification(buf))
DecodeRoleSync == Decode("role_sync", deserialize_role_sync(buf))

NextCodec ==
    \/ DecodeVerification
    \/ DecodeAssetCreation
    \/ DecodeTokenTransfer
    \/ DecodeCredentialVerification
    \/ DecodeRoleSync

SpecCodec == InitCodec /\ [][NextCodec]_vars

(* SpecIdentity: the standalone identity program on one identity account   *)
(* of any of the sizes, every instruction with every signer.               *)
InitIdentity ==
    /\ state = NoAccount
    /\ credentials = [h \in Handles |-> NoAccount]
    /\ now = 1
    /\ okCount = ZeroCounts
    /\ last = Call("none", "None", NoKey, NoHandle)
    /\ buf = <<>>
    /\ kind = "None"
    /\ dec = NotDecoded
    /\ identity_account \in { Allocated(space) : space \in Spaces }
    /\ instruction = NoInstruction
    /\ verified_as = NothingVerified

Issue(op, accounts, r) ==
    /\ identity_account' = r.account
    /\ instruction' = [op |-> op, result |-> r.result, key |-> accounts.key,
                       is_signer |-> accounts.is_signer]
    /\ verified_as' = IF op = "Verify" /\ r.result = "Ok"
                        THEN [did |-> r.account.data.did,
                              ethereum_address |-> r.account.data.ethereum_address]
                        ELSE verified_as
    /\ UNCHANGED coreVars

IdentityInitialize ==
    \E accounts \in AccountInputs, ethereum_address \in EthAddresses, did \in Dids :
        Issue("Initialize", accounts,
              process_initialize(identity_account, accounts, ethereum_address, did))

IdentityVerify ==
    \E accounts \in AccountInputs, verification_data \in VerificationTexts :
        Issue("Verify", accounts,
              process_verify(identity_account, accounts, verification_data))

IdentityUpdateDid ==
    \E accounts \in AccountInputs, new_did \in Dids :
        Issue("UpdateDid", accounts,
              process_update_did(identity_account, accounts, new_did))

IdentityUpdateEthereumAddress ==
    \E accounts \in AccountInputs, new_ethereum_address \in EthAddresses :
        Issue("UpdateEthereumAddress", accounts,
              process_update_ethereum_address(identity_account, accounts,
                                              new_ethereum_address))

\* instruction data that is no IdentityInstruction
IdentityUndecodable ==
    \E accounts \in AccountInputs :
        Issue("Undecodable", accounts,
              Processed("InvalidInstructionData", identity_account))

NextIdentity ==
    \/ IdentityInitialize
    \/ IdentityVerify
    \/ IdentityUpdateDid
    \/ IdentityUpdateEthereumAddress
    \/ IdentityUndecodable

SpecIdentity == InitIdentity /\ [][NextIdentity]_vars

----------------------------------------------------------------------------
(* Properties *)

Received == last.op = "receive_message"
ReceivedNext == last'.op = "receive_message"

\* C1: a receive_message call that ends in an error (or a panic) leaves the
\* persistent state as it was: the ProgramState record (authority,
\* verification_count, credential_count) and every Credential record.
C1_FailedReceiveChangesNothing ==
    [][(ReceivedNext /\ last'.result # "Ok")
         => (state' = state /\ credentials' = credentials)]_vars

\* C1 witness: a mint failure met with a counter already bumped and a
\* credential on record
C1_Witness ==
    /\ Received
    /\ last.result = "MintFailed"
    /\ state # NoAccount
    /\ state.verification_count > 0
    /\ credentials["cred1"] # NoAccount

\* C2 (as claimed): a message delivered to an initialized program from a chain
\* other than the configured remote chain fails with InvalidChain.
C2_ForeignChainRejected ==
    (Received /\ state # NoAccount /\ last.origin # RemoteChain)
        => last.result = "InvalidChain"

\* C3 (as claimed): verification_count equals the number of successful
\* Verification dispatches plus the number of successful DIDResolution
\* dispatches.
C3_CountsVerificationAndDIDResolution ==
    state # NoAccount
        => state.verification_count = okCount.Verification + okCount.DIDResolution

\* C4: revoke_credential by a signer that is not the record's owner fails with
\* Unauthorized and leaves the record (is_valid, revocation_date, hash, owner)
\* as it was, whether the record is valid or already revoked.
C4_NonOwnerRevokeRejected ==
    [][\A h \in Handles :
         (/\ last'.op = "revoke_credential"
          /\ last'.handle = h
          /\ credentials[h] # NoAccount
          /\ credentials[h].owner # last'.signer)
         => (last'.result = "Unauthorized" /\ credentials'[h] = credentials[h])]_vars

\* C4 witness: a non-owner's revoke refused on a record already revoked
C4_Witness ==
    /\ last.op = "revoke_credential"
    /\ last.result = "Unauthorized"
    /\ credentials[last.handle] # NoAccount
    /\ ~credentials[last.handle].is_valid
    /\ credentials[last.handle].owner # last.signer

\* C5: revocation is terminal: a Credential record with is_valid = false stays
\* a record with is_valid = false under every instruction.
C5_RevocationTerminal ==
    [][\A h \in Handles :
         (credentials[h] # NoAccount /\ ~credentials[h].is_valid)
         => (credentials'[h] # NoAccount /\ ~credentials'[h].is_valid)]_vars

\* C5 witness: store_credential tried on the account of a revoked record
C5_Witness ==
    /\ last.op = "store_credential"
    /\ last.result = "AccountAlreadyInUse"
    /\ credentials[last.handle] # NoAccount
    /\ ~credentials[last.handle].is_valid

\* C6: an inbound envelope whose msg_type is a response variant is rejected
\* with InvalidMessageType: no counter changes, the mint is not invoked, no
\* event is emitted and no reply is built.
C6_ResponseTypesRejected ==
    [][(ReceivedNext /\ last'.msg_type \in ResponseTypes)
         => (/\ last'.result = "InvalidMessageType"
             /\ last'.mint = "NotInvoked"
             /\ last'.events = <<>>
             /\ last'.reply = NoReply
             /\ state' = state)]_vars

\* C6 witness: a DIDResolutionResponse envelope refused
C6_Witness ==
    /\ Received
    /\ last.msg_type = "DIDResolutionResponse"
    /\ last.result = "InvalidMessageType"

\* C7: when the mint fails in a TokenTransfer dispatch the call fails, no reply
\* is built and no counter changes; a TokenTransferResponse reply exists only
\* for a call in which the mint succeeded.
C7_MintFailureIsFatal ==
    [][/\ (ReceivedNext /\ last'.mint = "Failed")
            => (last'.result # "Ok" /\ last'.reply = NoReply /\ state' = state)
       /\ (last'.reply.msg_type = "TokenTransferResponse")
            => (last'.mint = "Succeeded" /\ last'.result = "Ok")]_vars

\* C7 witness: a TokenTransfer whose mint was refused
C7_Witness ==
    /\ Received
    /\ last.msg_type = "TokenTransfer"
    /\ last.mint = "Failed"

\* C8 (as claimed): a TokenTransfer envelope whose data is shorter than 48
\* bytes fails with the error MalformedPayload, without the mint being invoked
\* and without a reply.
C8_ShortTokenTransferIsMalformedPayload ==
    (Received /\ last.msg_type = "TokenTransfer" /\ last.data_len < 48)
        => (/\ last.result = "MalformedPayload"
            /\ last.mint = "NotInvoked"
            /\ last.reply = NoReply)

----------------------------------------------------------------------------
(* Properties of the decoders, under SpecCodec *)

Decoded == dec # NotDecoded
FieldTooLong == "StringTooLong"
SlicedWithin(limit) == \A i \in 1..Len(dec.slices) : dec.slices[i][2] <= limit
DeclaredDidLen == LeValue(Slice(buf, 8, 12))
DeclaredNameLen == LeValue(Slice(buf, 32, 36))
DeclaredSymbolLen ==
    LeValue(Slice(buf, 36 + DeclaredNameLen, 36 + DeclaredNameLen + 4))

\* C9: a declared length beyond its bound (did_len > 128, name_len > 32,
\* symbol_len > 10) makes the decode fail with the too-long error
\* (ErrorCode::StringTooLong), and no slice taken from the buffer reaches past
\* the length field: the declared length is never used as an index, whatever
\* the size of the buffer.
C9_BoundCheckedBeforeSlice ==
    Decoded =>
      /\ (kind = "verification" /\ Len(buf) >= 12 /\ DeclaredDidLen > MaxDidLen)
            => (dec.tag = "Err" /\ dec.code = FieldTooLong /\ SlicedWithin(12))
      /\ (kind = "asset_creation" /\ Len(buf) >= 36 /\ DeclaredNameLen > MaxNameLen)
            => (dec.tag = "Err" /\ dec.code = FieldTooLong /\ SlicedWithin(36))
      /\ (/\ kind = "asset_creation"
          /\ Len(buf) >= 36
          /\ DeclaredNameLen <= MaxNameLen
          /\ Len(buf) >= 36 + DeclaredNameLen + 4
          /\ DeclaredSymbolLen > MaxSymbolLen)
            => (/\ dec.tag = "Err"
                /\ dec.code = FieldTooLong
                /\ SlicedWithin(36 + DeclaredNameLen + 4))

\* C9 witness: symbol_len = 11 declared in a buffer that holds the 11 bytes
C9_Witness ==
    /\ Decoded
    /\ kind = "asset_creation"
    /\ Len(buf) >= 36
    /\ DeclaredNameLen <= MaxNameLen
    /\ Len(buf) >= 36 + DeclaredNameLen + 4
    /\ DeclaredSymbolLen = MaxSymbolLen + 1
    /\ Len(buf) >= 36 + DeclaredNameLen + 4 + DeclaredSymbolLen

\* the buffer is shorter than the layout of its payload type requires
TooShort ==
    CASE kind = "verification" ->
           Len(buf) < 12 \/ (DeclaredDidLen <= MaxDidLen /\ Len(buf) < 12 + DeclaredDidLen)
      [] kind = "asset_creation" ->
           \/ Len(buf) < 36
           \/ /\ DeclaredNameLen <= MaxNameLen
              /\ \/ Len(buf) < 36 + DeclaredNameLen + 4
                 \/ /\ DeclaredSymbolLen <= MaxSymbolLen
                    /\ Len(buf) < 36 + DeclaredNameLen + 4 + DeclaredSymbolLen
      [] kind = "token_transfer" -> Len(buf) < 48
      [] kind = "credential_verification" -> Len(buf) < 40
      [] kind = "role_sync" -> Len(buf) < 73
      [] OTHER -> FALSE

\* C10 (as claimed): decoding a buffer shorter than its layout requires
\* returns the error MalformedPayload.
C10_ShortBufferIsMalformedPayload ==
    (Decoded /\ TooShort) => (dec.tag = "Err" /\ dec.code = "MalformedPayload")

----------------------------------------------------------------------------
(* Properties of the dispatch, under SpecInbound *)

\* the envelope receive_message was given last, and its payload decoded
Inbound == deserialize(buf)
InboundIs(types) == Inbound.tag = "Ok" /\ Inbound.value.msg_type \in types
InboundVerification == deserialize_verification(Inbound.value.data)
InboundAssetCreation == deserialize_asset_creation(Inbound.value.data)

\* the handler ran on an envelope whose text field is within its bound and
\* is not UTF-8
BadTextInbound ==
    /\ Received
    /\ state # NoAccount
    /\ \/ /\ InboundIs({"Verification", "DIDResolution"})
          /\ InboundVerification.tag = "Ok"
          /\ ~IsUtf8(InboundVerification.value.did)
       \/ /\ InboundIs({"AssetCreation"})
          /\ InboundAssetCreation.tag = "Ok"
          /\ \/ ~IsUtf8(InboundAssetCreation.value.name)
             \/ ~IsUtf8(InboundAssetCreation.value.symbol)

\* C11 (as claimed): a text field (DID, asset name, asset symbol) within its
\* length bound that is not valid UTF-8 makes the dispatch fail with
\* EncodingError, an error other than MalformedPayload and FieldTooLong.
C11_BadTextIsEncodingError ==
    BadTextInbound =>
        /\ last.result = "EncodingError"
        /\ last.result # FieldTooLong
        /\ last.result # "MalformedPayload"

----------------------------------------------------------------------------
(* Properties of the registry and of initialize, under SpecRegistry *)

\* the step is a call of instruction op (Tick is the one step that moves the
\* clock, and it is no call); last' is the record of that call
Called(op) == now' = now /\ last'.op = op

\* C12: a successful store_credential(H) by signer A creates exactly one new
\* record {hash: H, is_valid: true, owner: A, revocation_date: 0} (H is the
\* hash the CredentialStoredEvent carries), adds exactly 1 to credential_count
\* and leaves verification_count, authority and every other record as they
\* were; the first store after initialize gives credential_count = 1.
C12_StoreCreatesOneRecord ==
    [][(Called("store_credential") /\ last'.result = "Ok") =>
         \E h \in Handles :
           /\ last'.handle = h
           /\ credentials[h] = NoAccount
           /\ Len(last'.events) = 1
           /\ last'.events[1].credential_hash \in Hashes
           /\ credentials'[h] = [hash |-> last'.events[1].credential_hash,
                                 is_valid |-> TRUE,
                                 owner |-> last'.signer,
                                 revocation_date |-> 0]
           /\ \A g \in Handles \ {h} : credentials'[g] = credentials[g]
           /\ state' = [state EXCEPT !.credential_count = @ + 1]
           /\ (okCount'.store_credential = 1 /\ okCount'.CredentialVerification = 0)
                => state'.credential_count = 1]_vars

\* C12 witness: the first store, by a signer other than the authority
C12_Witness ==
    /\ last.op = "store_credential"
    /\ last.result = "Ok"
    /\ last.signer # state.authority
    /\ state.credential_count = 1
    /\ credentials[last.handle].owner = last.signer
    /\ credentials[last.handle].is_valid

\* C13: revoke_credential by the record's owner succeeds whether the record
\* is valid or already revoked; it sets is_valid = false and revocation_date
\* to the current time (overwriting an earlier date) and emits a
\* CredentialRevokedEvent carrying the record's stored hash.
C13_OwnerRevokeOverwritesDate ==
    [][\A h \in Handles :
         (/\ Called("revoke_credential")
          /\ last'.handle = h
          /\ credentials[h] # NoAccount
          /\ credentials[h].owner = last'.signer)
         => (/\ last'.result = "Ok"
             /\ credentials'[h] = [credentials[h] EXCEPT !.is_valid = FALSE,
                                                         !.revocation_date = now]
             /\ last'.events = << [event |-> "CredentialRevokedEvent",
                                   credential_hash |-> credentials[h].hash,
                                   revocation_date |-> now] >>)]_vars

\* C13 witness: a record revoked at time 1 revoked again at a later time
C13_Witness ==
    /\ last.op = "revoke_credential"
    /\ last.result = "Ok"
    /\ last.prior_date = 1
    /\ credentials[last.handle].revocation_date > 1
    /\ ~credentials[last.handle].is_valid

\* the substrate's refusal of an account that already exists
AlreadyInitialized == "AccountAlreadyInUse"

\* C14: initialize on an existing ProgramState fails with AlreadyInitialized
\* and leaves authority and both counters as they were; once the record
\* exists no call removes it, changes its authority or brings a counter that
\* has left zero back to zero.
C14_SecondInitializeRejected ==
    [][/\ (Called("initialize") /\ state # NoAccount)
            => (last'.result = AlreadyInitialized /\ state' = state)
       /\ state # NoAccount
            => (/\ state' # NoAccount
                /\ state'.authority = state.authority
                /\ state.verification_count > 0 => state'.verification_count > 0
                /\ state.credential_count > 0 => state'.credential_count > 0)]_vars

\* C14 witness: an initialize by another signer refused after both counters
\* have moved
C14_Witness ==
    /\ last.op = "initialize"
    /\ last.result = AlreadyInitialized
    /\ last.signer # state.authority
    /\ state.verification_count > 0
    /\ state.credential_count > 0

----------------------------------------------------------------------------
(* Replies, under SpecReplies *)

\* the request_id / transfer_id a payload or a reply starts with
Correlator(data) == LeValue(SubSeq(data, 1, 8))
InboundCorrelator == Correlator(Inbound.value.data)

\* C15: the message_id of a reply is a function of the inbound request_id /
\* transfer_id alone: it is the hash of that correlator's bytes, and the
\* reply of an earlier successful dispatch with the same correlator has the
\* same message_id, whatever the counters, the clock and the calls between.
C15_MessageIdFromCorrelatorOnly ==
    (Received /\ last.reply # NoReply) =>
        /\ last.reply.message_id = hash(LeBytes(InboundCorrelator, 8))
        /\ (dec # NotDecoded /\ Correlator(dec.data) = InboundCorrelator)
             => dec.message_id = last.reply.message_id

\* C15 witness: two replies of different types, built at different times for
\* the same correlator
C15_Witness ==
    /\ Received
    /\ last.reply # NoReply
    /\ dec # NotDecoded
    /\ Correlator(dec.data) = InboundCorrelator
    /\ dec.timestamp # last.reply.timestamp
    /\ dec.msg_type # last.reply.msg_type
    /\ state.verification_count > 0

----------------------------------------------------------------------------
(* Counters and the verification stub, under SpecRegistry *)

\* C16: once the ProgramState exists it is never deleted, and neither
\* verification_count nor credential_count decreases in any call, successful
\* or failed.
C16_CountersNeverDecrease ==
    [][state # NoAccount
         => (/\ state' # NoAccount
             /\ state'.verification_count >= state.verification_count
             /\ state'.credential_count >= state.credential_count)]_vars

\* C16 witness: a successful revocation with both counters above zero
C16_Witness ==
    /\ last.op = "revoke_credential"
    /\ last.result = "Ok"
    /\ state # NoAccount
    /\ state.verification_count > 0
    /\ state.credential_count > 0

\* the records that hold the hash of the last CredentialVerificationEvent
HoldersOfVerifiedHash ==
    { h \in Handles : /\ credentials[h] # NoAccount
                      /\ credentials[h].hash = last.events[1].credential_hash }

\* C17: a CredentialVerification message with a full payload is dispatched
\* with success whatever the registry holds: the event and the reply both
\* report verified = true, credential_count grows by 1, and no Credential
\* record (nor verification_count) changes.
C17_VerificationStubAlwaysTrue ==
    [][(/\ Called("receive_message")
        /\ last'.msg_type = "CredentialVerification"
        /\ last'.data_len >= 40)
         => (/\ last'.result = "Ok"
             /\ Len(last'.events) = 1
             /\ last'.events[1].event = "CredentialVerificationEvent"
             /\ last'.events[1].verified = TRUE
             /\ last'.reply.msg_type = "CredentialVerificationResponse"
             /\ last'.reply.data =
                  serialize_response(last'.events[1].request_id, TRUE)
             /\ state' = [state EXCEPT !.credential_count = @ + 1]
             /\ credentials' = credentials)]_vars

\* C17 witness: verified = true reported for a hash whose every record is
\* revoked
C17_Witness ==
    /\ Received
    /\ last.msg_type = "CredentialVerification"
    /\ last.result = "Ok"
    /\ last.events[1].verified
    /\ HoldersOfVerifiedHash # {}
    /\ \A h \in HoldersOfVerifiedHash : ~credentials[h].is_valid

----------------------------------------------------------------------------
(* Frame of the AssetCreation and RoleSynchronization arms, under           *)
(* SpecInbound                                                              *)

\* the payload decoders tabulated over the inbound vaas (@@ <<>> as above)
InboundVaas == { dl[1] : dl \in InboundDeliveries }

AssetCreationOf ==
    [vaa \in InboundVaas |->
        LET payload == deserialize(vaa)
        IN  IF payload.tag = "Ok" THEN deserialize_asset_creation(payload.value.data)
            ELSE payload] @@ <<>>

RoleSyncOf ==
    [vaa \in InboundVaas |->
        LET payload == deserialize(vaa)
        IN  IF payload.tag = "Ok" THEN deserialize_role_sync(payload.value.data)
            ELSE payload] @@ <<>>

\* C18: a successful AssetCreation dispatch emits one AssetCreationEvent
\* (issuer, name, symbol of the payload) and does nothing else: counters,
\* authority and Credential records unchanged, mint not invoked, no reply.
C18_AssetCreationOnlyEmits ==
    [][(/\ Called("receive_message")
        /\ last'.msg_type = "AssetCreation"
        /\ last'.result = "Ok")
         => (/\ last'.events =
                  << [event |-> "AssetCreationEvent",
                      issuer |-> AssetCreationOf[buf'].value.issuer,
                      name |-> AssetCreationOf[buf'].value.name,
                      symbol |-> AssetCreationOf[buf'].value.symbol] >>
             /\ state' = state
             /\ credentials' = credentials
             /\ last'.mint = "NotInvoked"
             /\ last'.reply = NoReply)]_vars

\* C18 witness: an AssetCreation dispatched after the counters have moved
C18_Witness ==
    /\ Received
    /\ last.msg_type = "AssetCreation"
    /\ last.result = "Ok"
    /\ state.verification_count > 0
    /\ state.credential_count > 0

\* C19: a RoleSynchronization message with a full payload is dispatched with
\* success and changes no persistent state; it emits one RoleSyncEvent with
\* the payload's fields and builds a RoleSyncResponse with success = true,
\* for a grant and for a revocation alike.
C19_RoleSyncReportsSuccess ==
    [][(/\ Called("receive_message")
        /\ last'.msg_type = "RoleSynchronization"
        /\ last'.data_len >= 73)
         => (/\ last'.result = "Ok"
             /\ state' = state
             /\ credentials' = credentials
             /\ last'.events =
                  << [event |-> "RoleSyncEvent",
                      request_id |-> RoleSyncOf[buf'].value.request_id,
                      role |-> RoleSyncOf[buf'].value.role,
                      account |-> RoleSyncOf[buf'].value.account,
                      is_grant |-> RoleSyncOf[buf'].value.is_grant] >>
             /\ last'.reply.msg_type = "RoleSyncResponse"
             /\ last'.reply.data =
                  serialize_response(RoleSyncOf[buf'].value.request_id, TRUE))]_vars

\* C19 witness: success reported for is_grant = false
C19_Witness ==
    /\ Received
    /\ last.msg_type = "RoleSynchronization"
    /\ last.result = "Ok"
    /\ ~last.events[1].is_grant
    /\ last.reply.data = serialize_response(RoleSyncOf[buf].value.request_id, TRUE)

----------------------------------------------------------------------------
(* Duplicate hashes, under SpecRegistry *)

\* C20: store_credential on a fresh account succeeds whatever hashes the
\* registry already holds, and a revoke_credential changes no record but the
\* one it is given: a record with the same hash keeps its is_valid and its
\* revocation_date.
C20_DuplicateHashesIndependent ==
    [][/\ (/\ Called("store_credential")
           /\ state # NoAccount
           /\ credentials[last'.handle] = NoAccount)
            => (/\ last'.result = "Ok"
                /\ \A g \in Handles \ {last'.handle} : credentials'[g] = credentials[g])
       /\ Called("revoke_credential")
            => \A g \in Handles \ {last'.handle} : credentials'[g] = credentials[g]]_vars

\* C20 witness: two records with one hash, the one just revoked and the other
\* still valid
C20_Witness ==
    /\ last.op = "revoke_credential"
    /\ last.result = "Ok"
    /\ \E g \in Handles \ {last.handle} :
         /\ credentials[g] # NoAccount
         /\ credentials[g].hash = credentials[last.handle].hash
         /\ credentials[g].is_valid
         /\ credentials[g].revocation_date = 0

----------------------------------------------------------------------------
(* Frame of a Credential record, under SpecRegistry                        *)

\* C21: once a Credential record exists, no step removes it or changes its
\* hash or its owner, and a step changes the record at all only if it is a
\* successful revoke_credential on that very record signed by its owner: no
\* receive_message of any type, no store_credential and no revoke of another
\* record changes it.
C21_RecordChangesOnlyByOwnersRevoke ==
    [][\A h \in Handles :
         credentials[h] # NoAccount =>
            /\ credentials'[h] # NoAccount
            /\ credentials'[h].hash = credentials[h].hash
            /\ credentials'[h].owner = credentials[h].owner
            /\ credentials'[h] # credentials[h] =>
                 /\ Called("revoke_credential")
                 /\ last'.result = "Ok"
                 /\ last'.handle = h
                 /\ last'.signer = credentials[h].owner]_vars

\* a revoked record of one signer, then a successful store_credential of the
\* other record by the other signer
C21_Witness ==
    /\ last.op = "store_credential"
    /\ last.result = "Ok"
    /\ \E g \in Handles \ {last.handle} :
         /\ credentials[g] # NoAccount
         /\ credentials[g].owner # last.signer
         /\ ~credentials[g].is_valid
         /\ credentials[g].revocation_date > 0

----------------------------------------------------------------------------
(* Repeated deliveries, under SpecReplies (buf is the vaa of the latest    *)
(* receive_message, dec the reply built before the latest one)             *)

\* C22: the program keeps no record of the messages it has dispatched: when
\* the Verification or CredentialVerification message that was just
\* dispatched successfully is delivered again, it is dispatched successfully
\* again, its counter grows by 1 again, and the reply carries the same
\* message_id as the reply before.  So k deliveries give k successes, the
\* counter increased by k, and k replies with one message_id.
C22_RedeliveryDispatchedAgain ==
    [][(/\ Called("receive_message")
        /\ Received
        /\ last.result = "Ok"
        /\ last.msg_type \in {"Verification", "CredentialVerification"}
        /\ buf' = buf)
       => /\ last'.result = "Ok"
          /\ last'.msg_type = last.msg_type
          /\ okCount'[last.msg_type] = okCount[last.msg_type] + 1
          /\ state'.verification_count =
               state.verification_count
                 + (IF last.msg_type = "Verification" THEN 1 ELSE 0)
          /\ state'.credential_count =
               state.credential_count
                 + (IF last.msg_type = "CredentialVerification" THEN 1 ELSE 0)
          /\ last'.reply # NoReply
          /\ last'.reply.message_id = last.reply.message_id]_vars

\* the same Verification delivered twice, at two times: two successes, the
\* counter at 2, two replies with one message_id
C22_Witness ==
    /\ Received
    /\ last.result = "Ok"
    /\ last.msg_type = "Verification"
    /\ okCount.Verification = 2
    /\ state.verification_count = 2
    /\ dec # NotDecoded
    /\ dec.msg_type = last.reply.msg_type
    /\ dec.data = last.reply.data
    /\ dec.timestamp # last.reply.timestamp
    /\ dec.message_id = last.reply.message_id

----------------------------------------------------------------------------
(* Round trip of the payload layouts, under SpecCodec                      *)

\* the values whose layouts are among the buffers SpecCodec draws: every
\* text field empty, short and at its bound
VerificationValues ==
    [request_id : RequestIds, did : {<<>>, DidText, BadText, Rep(MaxDidLen, 97)}]
AssetValues == [issuer : {Rep(32, 5)}, name : AssetNames, symbol : AssetSymbols]
TokenValues ==
    [transfer_id : RequestIds, token_address : {Rep(32, 9)}, amount : {0, 1000}]
CredentialValues == [request_id : RequestIds, credential_hash : Hashes]
RoleValues ==
    [request_id : {7}, role : {Rep(32, 3)}, account : {Rep(32, 4)},
     is_grant : BOOLEAN]

\* C23: for every payload type (Verification and DIDResolution share one
\* layout) and every value x within the length bounds, decoding the bytes
\* that lay x out as in the layout table succeeds and yields exactly x.
C23_DecodeInvertsEncode ==
    Decoded =>
      /\ kind = "verification" =>
           \A x \in VerificationValues :
              buf = encode_verification(x.request_id, x.did)
                 => dec.tag = "Ok" /\ dec.value = x
      /\ kind = "asset_creation" =>
           \A x \in AssetValues :
              buf = encode_asset_creation(x.issuer, x.name, x.symbol)
                 => dec.tag = "Ok" /\ dec.value = x
      /\ kind = "token_transfer" =>
           \A x \in TokenValues :
              buf = encode_token_transfer(x.transfer_id, x.token_address, x.amount)
                 => dec.tag = "Ok" /\ dec.value = x
      /\ kind = "credential_verification" =>
           \A x \in CredentialValues :
              buf = encode_credential_verification(x.request_id, x.credential_hash)
                 => dec.tag = "Ok" /\ dec.value = x
      /\ kind = "role_sync" =>
           \A x \in RoleValues :
              buf = encode_role_sync(x.request_id, x.role, x.account, x.is_grant)
                 => dec.tag = "Ok" /\ dec.value = x

\* the layout of a verification request whose did has exactly 128 bytes has
\* been decoded
C23_Witness ==
    /\ Decoded
    /\ kind = "verification"
    /\ buf = encode_verification(300, Rep(MaxDidLen, 97))
    /\ dec.tag = "Ok"
    /\ Len(dec.value.did) = MaxDidLen

----------------------------------------------------------------------------
(* What credential_count counts, under SpecRegistry                        *)

\* C24: in every reachable state credential_count is the number of
\* successful store_credential calls plus the number of successfully
\* dispatched CredentialVerification messages, and no revoke_credential
\* changes the ProgramState; so credential_count is not in general the number
\* of Credential records the registry holds.
C24_CredentialCountIsStoresPlusVerifications ==
    /\ [](state # NoAccount =>
            state.credential_count =
               okCount.store_credential + okCount.CredentialVerification)
    /\ [][Called("revoke_credential") => state' = state]_vars

\* one record stored, one CredentialVerification dispatched, the record
\* revoked: credential_count is 2 and the registry holds one record, revoked
C24_Witness ==
    /\ last.op = "revoke_credential"
    /\ last.result = "Ok"
    /\ state # NoAccount
    /\ state.credential_count = 2
    /\ okCount.store_credential = 1
    /\ okCount.CredentialVerification = 1
    /\ Cardinality({h \in Handles : credentials[h] # NoAccount}) = 1
    /\ ~credentials[last.handle].is_valid

----------------------------------------------------------------------------
(* is_valid and revocation_date of a record, under SpecRegistry            *)

\* C25: in every reachable state every Credential record with is_valid =
\* true has revocation_date = 0, and every record with a non-zero
\* revocation_date has is_valid = false.
C25_ValidMeansNoRevocationDate ==
    \A h \in Handles :
        credentials[h] # NoAccount =>
           /\ credentials[h].is_valid => credentials[h].revocation_date = 0
           /\ credentials[h].revocation_date # 0 => ~credentials[h].is_valid

\* two records: one still valid with no date, one revoked at the current
\* time after the clock has advanced
C25_Witness ==
    \E h \in Handles, g \in Handles :
        /\ credentials[h] # NoAccount
        /\ credentials[g] # NoAccount
        /\ credentials[h].is_valid
        /\ credentials[h].revocation_date = 0
        /\ ~credentials[g].is_valid
        /\ credentials[g].revocation_date = now
        /\ now > 1

----------------------------------------------------------------------------
(* The standalone identity program, under SpecIdentity                     *)

\* C26 (as claimed): once the identity account has been initialized with an
\* owner O, no instruction whose signer account is another key than O changes
\* the account's owner, did or ethereum_address.
C26_OnlyOwnerChangesIdentity ==
    [][(/\ identity_account.data.owner \in Keys
        /\ instruction'.key # identity_account.data.owner)
       => /\ identity_account'.data.owner = identity_account.data.owner
          /\ identity_account'.data.did = identity_account.data.did
          /\ identity_account'.data.ethereum_address =
               identity_account.data.ethereum_address]_vars

\* C27: is_verified is false right after every successful Initialize,
\* UpdateDid and UpdateEthereumAddress; it turns from false to true only in
\* a successful Verify; and whenever it is true the did and the
\* ethereum_address are the ones the account held at the most recent
\* successful Verify.
C27_VerifiedOnlyByVerify ==
    /\ []((/\ instruction.result = "Ok"
           /\ instruction.op \in {"Initialize", "UpdateDid", "UpdateEthereumAddress"})
          => ~identity_account.data.is_verified)
    /\ [][(~identity_account.data.is_verified /\ identity_account'.data.is_verified)
          => (instruction'.op = "Verify" /\ instruction'.result = "Ok")]_vars
    /\ [](identity_account.data.is_verified =>
            /\ identity_account.data.did = verified_as.did
            /\ identity_account.data.ethereum_address = verified_as.ethereum_address)

\* an initialized identity that has been verified, and whose owner then
\* failed to give it a did that does not fit the account: it is still
\* verified, with the did it was verified with
C27_Witness ==
    /\ identity_account.data.is_verified
    /\ identity_account.data.owner \in Keys
    /\ identity_account.data.did = verified_as.did
    /\ identity_account.data.did \in Dids
    /\ instruction.op = "UpdateDid"
    /\ instruction.key = identity_account.data.owner
    /\ instruction.result = "BorshIoError"

=============================================================================
